---- MODULE Spec2Model ----
(***************************************************************************)
(* Leitor Fiscal (src/app.py): extraction of CT-e / NF-e records from XML,  *)
(* the session-stored tables and their inner join on "Chave NF".            *)
(*                                                                          *)
(* Text is modelled as a sequence of one-character strings, so that the     *)
(* character-level operations of the code (replace, strip, lstrip, number   *)
(* formatting) are computed as the code computes them.  Floats are          *)
(* modelled as fixed-point integers in hundredths (centavos / 10 g).        *)
(***************************************************************************)
EXTENDS Integers, Sequences, FiniteSets, TLC

\* ------------------------------------------------------------ bounds
\* files per upload, qCarga / infNFe elements per document, characters per text
MaxFiles == 2
MaxCarga == 2
MaxKeys == 2
MaxCodeLen == 2
MaxIdLen == 4

\* ------------------------------------------------------------ text helpers
DigitChars == <<"0", "1", "2", "3", "4", "5", "6", "7", "8", "9">>

IsDigit(c) == \E i \in 1..10 : DigitChars[i] = c

DigitVal(c) == (CHOOSE i \in 1..10 : DigitChars[i] = c) - 1

AllDigits(s) == \A i \in 1..Len(s) : IsDigit(s[i])

RECURSIVE Num(_)
Num(s) == IF s = <<>> THEN 0
          ELSE 10 * Num(SubSeq(s, 1, Len(s) - 1)) + DigitVal(s[Len(s)])

RECURSIVE IntStr(_)
IntStr(n) == IF n < 10 THEN <<DigitChars[n + 1]>>
             ELSE IntStr(n \div 10) \o <<DigitChars[(n % 10) + 1]>>

\* "%02d" / "%04d" style zero padding
RECURSIVE ZeroPad(_, _)
ZeroPad(s, w) == IF Len(s) >= w THEN s ELSE ZeroPad(<<"0">> \o s, w)

\* str.replace for a one-character pattern
Replace(s, a, b) == [i \in 1..Len(s) |-> IF s[i] = a THEN b ELSE s[i]]

\* str.replace(a, "") for a one-character pattern
Remove(s, a) == SelectSeq(s, LAMBDA c : c # a)

IsSpace(c) == c = " "

RECURSIVE LStripSpace(_)
LStripSpace(s) == IF s # <<>> /\ IsSpace(s[1]) THEN LStripSpace(Tail(s)) ELSE s

RECURSIVE RStripSpace(_)
RStripSpace(s) == IF s # <<>> /\ IsSpace(s[Len(s)])
                  THEN RStripSpace(SubSeq(s, 1, Len(s) - 1)) ELSE s

\* str.strip()
strip(s) == RStripSpace(LStripSpace(s))

\* str.lstrip(chars): drops every leading character that is a member of chars
RECURSIVE lstrip(_, _)
lstrip(s, chars) == IF s # <<>> /\ s[1] \in chars THEN lstrip(Tail(s), chars) ELSE s

StartsWith(s, p) == Len(s) >= Len(p) /\ SubSeq(s, 1, Len(p)) = p

Count(s, c) == Cardinality({i \in 1..Len(s) : s[i] = c})

IndexOf(s, c) == CHOOSE i \in 1..Len(s) : s[i] = c /\ \A j \in 1..(i - 1) : s[j] # c

\* ------------------------------------------------------------ float(...)
\* Python float() on the decimal literals the documents carry:
\* digits, optionally one "." and more digits.  Anything else raises ValueError.
FloatOk(s) ==
    /\ Count(s, ".") <= 1
    /\ AllDigits(Remove(s, "."))
    /\ Remove(s, ".") # <<>>

\* value in hundredths (the literals of the model carry at most two decimals)
FloatVal(s) ==
    IF Count(s, ".") = 0 THEN 100 * Num(s)
    ELSE LET p == IndexOf(s, ".")
             ip == SubSeq(s, 1, p - 1)
             fp == SubSeq(s, p + 1, Len(s))
             f2 == SubSeq(fp \o <<"0", "0">>, 1, 2)
         IN  100 * Num(ip) + Num(f2)

\* ------------------------------------------------------------ formatters
xml_float_raises(t) == t # <<>> /\ ~FloatOk(Replace(t, ",", "."))

xml_float(t) == IF t # <<>> THEN FloatVal(Replace(t, ",", ".")) ELSE 0

\* thousands grouping of the "," format option
RECURSIVE Group(_)
Group(ds) == IF Len(ds) <= 3 THEN ds
             ELSE Group(SubSeq(ds, 1, Len(ds) - 3)) \o <<",">>
                  \o SubSeq(ds, Len(ds) - 2, Len(ds))

\* f"{v:,.2f}" for a non-negative value v given in hundredths
Format2f(v) == Group(IntStr(v \div 100)) \o <<".">> \o ZeroPad(IntStr(v % 100), 2)

br_money(v) == Replace(Replace(Replace(Format2f(v), ",", "_"), ".", ","), "_", ".")

br_weight(kg) == Replace(Replace(Replace(Format2f(kg), ",", "_"), ".", ","), "_", ".")

str_to_float_br(s) == IF s # <<>> THEN FloatVal(Replace(Remove(s, "."), ",", ".")) ELSE 0

\* ------------------------------------------------------------ frete_tipo
LabelCIF == <<"C", "I", "F", " ", "(", "E", "m", "i", "t", "e", "n", "t", "e", ")">>
LabelFOB == <<"F", "O", "B", " ", "(", "D", "e", "s", "t", "i", "n", "a", "t", ".", ")">>
LabelTerceiros == <<"T", "e", "r", "c", "e", "i", "r", "o", "s">>
LabelSemFrete == <<"S", "e", "m", " ", "f", "r", "e", "t", "e">>

\* the dict literal of frete_tipo
FreteTable ==
    [c \in {<<"0">>, <<"1">>, <<"2">>, <<"3">>, <<"4">>, <<"9">>} |->
        CASE c = <<"0">> -> LabelCIF
          [] c = <<"1">> -> LabelFOB
          [] c = <<"2">> -> LabelTerceiros
          [] OTHER -> LabelSemFrete]

\* variant: the code looked up as it is
FreteKeyRaw(code) == code

\* the key looked up in the table: code.strip()
FreteKey(code) == strip(code)

\* {...}.get(code.strip(), code or "--")
frete_tipo(code) ==
    IF FreteKey(code) \in DOMAIN FreteTable THEN FreteTable[FreteKey(code)]
    ELSE IF code # <<>> THEN code ELSE <<"-", "-">>

\* ------------------------------------------------------------ XML elements
\* an element (or attribute) that is present with the given text / absent
El(t) == [present |-> TRUE, text |-> t]
NoEl == [present |-> FALSE, text |-> <<>>]

\* Element.findtext(path, default) / Element.get(name, default)
findtext(e, default) == IF e.present THEN e.text ELSE default

\* ------------------------------------------------------------ dates
\* datetime.fromisoformat: "YYYY-MM-DD", optionally followed by a separator
\* and a time part (the time part is not validated here).
IsoOk(t) ==
    /\ Len(t) >= 10
    /\ AllDigits(SubSeq(t, 1, 4)) /\ t[5] = "-"
    /\ AllDigits(SubSeq(t, 6, 7)) /\ t[8] = "-"
    /\ AllDigits(SubSeq(t, 9, 10))
    /\ Num(SubSeq(t, 1, 4)) >= 1
    /\ Num(SubSeq(t, 6, 7)) \in 1..12
    /\ Num(SubSeq(t, 9, 10)) \in 1..31
    /\ (Len(t) > 10 => t[11] \in {"T", " "} /\ Len(t) >= 13)

fromisoformat(t) ==
    [year |-> Num(SubSeq(t, 1, 4)), month |-> Num(SubSeq(t, 6, 7)),
     day |-> Num(SubSeq(t, 9, 10))]

\* .strftime("%d/%m/%Y")
strftime_dmY(d) ==
    ZeroPad(IntStr(d.day), 2) \o <<"/">> \o ZeroPad(IntStr(d.month), 2)
    \o <<"/">> \o ZeroPad(IntStr(d.year), 4)

\* pd.to_datetime(data, format="%d/%m/%Y").strftime("%Y-%m")
MesAno(data) ==
    LET d == [day |-> Num(SubSeq(data, 1, 2)), month |-> Num(SubSeq(data, 4, 5)),
              year |-> Num(SubSeq(data, 7, 10))]
    IN  ZeroPad(IntStr(d.year), 4) \o <<"-">> \o ZeroPad(IntStr(d.month), 2)

\* ------------------------------------------------------------ results
\* the outcome of a call: a returned value or a raised exception
Return(v) == [exc |-> "", ret |-> v]
Raise(e) == [exc |-> e, ret |-> <<>>]

\* sum(...) over a finite set of integers
RECURSIVE SumSet(_)
SumSet(S) == IF S = {} THEN 0
             ELSE LET x == CHOOSE y \in S : TRUE IN x + SumSet(S \ {x})

\* rounding of a quotient of non-negative integers to the nearest integer
RoundDiv(a, b) == (2 * a + b) \div (2 * b)

\* ------------------------------------------------------------ parse_cte
\* A CT-e document, as etree.fromstring sees it:
\*   wf      the bytes are well-formed XML
\*   parse   what the recovering parser does with them: "root" (a tree),
\*           "none" (no root element recovered), "error" (it raises)
\*   infCte  the tree holds an infCte element; the other fields are its content
CteDhEmi(doc) == IF doc.ide.present THEN findtext(doc.ide.dhEmi, <<>>) ELSE <<>>

CteData(doc) == strftime_dmY(fromisoformat(CteDhEmi(doc)))

Frete(doc) == xml_float(findtext(doc.vTPrest, <<"0">>))

\* variant: the plain sum over the qCarga elements, repeated values included
RECURSIVE SumSeq(_)
SumSeq(q) == IF q = <<>> THEN 0 ELSE xml_float(Head(q)) + SumSeq(Tail(q))

PesoPlainSum(doc) == SumSeq(doc.qCarga)

\* sum({xml_float(n.text) for n in root.findall(".//c:qCarga")})
Peso(doc) == SumSet({xml_float(doc.qCarga[i]) : i \in 1..Len(doc.qCarga)})

\* frete/(peso/1000), in hundredths, for frete and peso given in hundredths
\* (the quotient frete*100000/peso, computed in two steps to stay in 32 bits)
PerTon(frete, peso) ==
    ((frete * 1000) \div peso) * 100 + RoundDiv(((frete * 1000) % peso) * 100, peso)

\* br_money(frete/(peso/1000)) if peso else ""
RTon(frete, peso) == IF peso # 0 THEN br_money(PerTon(frete, peso)) ELSE <<>>

\* variant: without the fallback to one empty key
ChavesNoFallback(doc) == [i \in 1..Len(doc.infNFe) |-> findtext(doc.infNFe[i], <<>>)]

\* [n.findtext("c:chave", "") for n in root.findall(".//c:infNFe")] or [""]
Chaves(doc) ==
    LET ks == [i \in 1..Len(doc.infNFe) |-> findtext(doc.infNFe[i], <<>>)]
    IN  IF ks # <<>> THEN ks ELSE << <<>> >>

CteLinha(doc, fname, chave) ==
    [Data |-> CteData(doc),
     MesAno |-> MesAno(CteData(doc)),
     NumeroCTe |-> IF doc.ide.present THEN findtext(doc.ide.nCT, <<>>) ELSE <<>>,
     Emitente |-> IF doc.emit.present THEN findtext(doc.emit.xNome, <<>>) ELSE <<>>,
     UFOrig |-> IF doc.emit.present THEN findtext(doc.emit.UF, <<>>) ELSE <<>>,
     UFDest |-> IF doc.dest.present THEN findtext(doc.dest.UF, <<>>) ELSE <<>>,
     CidadeDest |-> IF doc.dest.present THEN findtext(doc.dest.xMun, <<>>) ELSE <<>>,
     Frete |-> br_money(Frete(doc)),
     Peso |-> br_weight(Peso(doc)),
     RTon |-> RTon(Frete(doc), Peso(doc)),
     ChaveNF |-> chave,
     Arquivo |-> fname]

parse_cte(doc, fname) ==
    IF doc.parse = "error" THEN Return(<<>>)
    ELSE IF doc.parse = "none" THEN Raise("AttributeError")
    ELSE IF ~doc.infCte THEN Return(<<>>)
    ELSE IF ~IsoOk(CteDhEmi(doc)) THEN Raise("ValueError")
    ELSE IF xml_float_raises(findtext(doc.vTPrest, <<"0">>)) THEN Raise("ValueError")
    ELSE IF \E i \in 1..Len(doc.qCarga) : xml_float_raises(doc.qCarga[i])
         THEN Raise("ValueError")
    ELSE Return([i \in 1..Len(Chaves(doc)) |-> CteLinha(doc, fname, Chaves(doc)[i])])

\* ------------------------------------------------------------ parse_nfe
\* An NF-e document, as etree.fromstring sees it:
\*   wf, parse   as for a CT-e document
\*   rootTag     local name of the root element ("nfeProc" wrapper or "NFe")
\*   NFe         the NFe element below an nfeProc root: "absent", "empty"
\*               (no child element) or "full"
\*   infNFe      where the infNFe element is: "absent", "inNFe", or "outside"
\*               (below the root but not inside the NFe element)
\*   Id, ide, emit, dest, tot, transp   the content of the infNFe element

\* truth value of an lxml element: it has at least one child element
TranspTruthy(t) == t.present /\ (t.modFrete.present \/ t.vol \/ t.transporta.present)

TnodeTruthy(t) == t.present /\ t.transporta.present
                  /\ (t.transporta.xNome.present \/ t.transporta.CNPJ.present)

\* rt = rt.find(".//n:NFe") or rt   (only below an nfeProc root)
SearchInNFe(doc) == doc.rootTag = "nfeProc" /\ doc.NFe = "full"

\* inf = rt.find(".//n:infNFe") is not None
InfFound(doc) == IF SearchInNFe(doc) THEN doc.infNFe = "inNFe" ELSE doc.infNFe # "absent"

\* ide.findtext("n:dhEmi", "") or ide.findtext("n:dEmi", "")
NfeDateText(doc) ==
    IF findtext(doc.ide.dhEmi, <<>>) # <<>> THEN findtext(doc.ide.dhEmi, <<>>)
    ELSE findtext(doc.ide.dEmi, <<>>)

\* inf.get("Id", "").lstrip("NFe")
ChaveNfe(id) == lstrip(id, {"N", "F", "e"})

\* tnode.findtext("n:xNome", "") if tnode else ""
Transportadora(t) == IF TnodeTruthy(t) THEN findtext(t.transporta.xNome, <<>>) ELSE <<>>

\* tnode.findtext("n:CNPJ", "") if tnode else ""
CNPJTransp(t) == IF TnodeTruthy(t) THEN findtext(t.transporta.CNPJ, <<>>) ELSE <<>>

\* variant: the freight term guarded by the carrier element
TipoFreteIfTnode(t) == IF TnodeTruthy(t) THEN frete_tipo(findtext(t.modFrete, <<>>)) ELSE <<>>

\* frete_tipo(transp.findtext("n:modFrete", "")) if transp else ""
TipoFrete(t) == IF TranspTruthy(t) THEN frete_tipo(findtext(t.modFrete, <<>>)) ELSE <<>>

NfeRecord(doc, fname) ==
    [Data |-> strftime_dmY(fromisoformat(NfeDateText(doc))),
     NumeroNF |-> findtext(doc.ide.nNF, <<>>),
     ChaveNF |-> ChaveNfe(findtext(doc.Id, <<>>)),
     EmitenteNF |-> findtext(doc.emit.xNome, <<>>),
     Destinatario |-> findtext(doc.dest.xNome, <<>>),
     ValorNF |-> br_money(xml_float(findtext(doc.tot.vNF, <<"0">>))),
     ICMS |-> br_money(xml_float(findtext(doc.tot.vICMS, <<"0">>))),
     Transportadora |-> Transportadora(doc.transp),
     CNPJTransp |-> CNPJTransp(doc.transp),
     TipoFrete |-> TipoFrete(doc.transp),
     Arquivo |-> fname]

\* the optional record is a sequence of length 0 (None) or 1
parse_nfe(doc, fname) ==
    IF doc.parse = "error" THEN Return(<<>>)
    ELSE IF doc.parse = "none" THEN Raise("AttributeError")
    ELSE IF ~InfFound(doc) THEN Return(<<>>)
    ELSE IF ~doc.ide.present THEN Raise("AttributeError")
    ELSE IF ~IsoOk(NfeDateText(doc)) THEN Raise("ValueError")
    ELSE IF ~doc.emit.present \/ ~doc.dest.present \/ ~doc.tot.present
         THEN Raise("AttributeError")
    ELSE IF xml_float_raises(findtext(doc.tot.vNF, <<"0">>))
            \/ xml_float_raises(findtext(doc.tot.vICMS, <<"0">>))
         THEN Raise("ValueError")
    ELSE Return(<<NfeRecord(doc, fname)>>)

\* ------------------------------------------------------------ inputs
SeqsUpTo(S, n) == UNION {[1..k -> S] : k \in 0..n}

IsoDate == <<"2", "0", "2", "4", "-", "0", "1", "-", "1", "5">>
IsoDateTime == <<"2", "0", "2", "4", "-", "0", "2", "-", "0", "3", "T", "0", "8", ":",
                 "0", "0", ":", "0", "0", "-", "0", "3", ":", "0", "0">>
BrDate == <<"1", "5", "/", "0", "1", "/", "2", "0", "2", "4">>
DateTexts == {IsoDate, IsoDateTime, BrDate, <<>>}

KeyA == <<"1", "1">>
KeyB == <<"2", "2">>

W100 == <<"1", "0", "0", ".", "0">>
W100c == <<"1", "0", "0", ",", "0">>
W50 == <<"5", "0", ".", "0">>
WeightTexts == {W100, W100c, W50, <<"0">>, <<>>, <<"x">>}

V1234 == <<"1", "2", "3", "4", ".", "5">>
V250 == <<"2", "5", "0", ",", "0", "0">>

BaseCte ==
    [wf |-> TRUE, parse |-> "root", infCte |-> TRUE,
     ide |-> [present |-> TRUE, dhEmi |-> El(IsoDate), nCT |-> El(<<"7">>)],
     emit |-> [present |-> TRUE, xNome |-> El(<<"T", "r">>), UF |-> El(<<"S", "P">>)],
     dest |-> [present |-> TRUE, UF |-> El(<<"R", "J">>), xMun |-> El(<<"R", "i", "o">>)],
     vTPrest |-> El(V1234), qCarga |-> <<W100>>, infNFe |-> <<El(KeyA)>>]

\* what the recovering parser can do with a byte string
ParseOutcomes == {<<TRUE, "root">>, <<FALSE, "root">>, <<FALSE, "none">>, <<FALSE, "error">>}

CteStructDocs ==
    {[BaseCte EXCEPT !.wf = po[1], !.parse = po[2], !.infCte = inf,
                     !.ide.present = i, !.ide.dhEmi = dh,
                     !.emit.present = e, !.dest.present = d] :
        po \in ParseOutcomes, inf \in BOOLEAN, i \in BOOLEAN,
        dh \in {El(t) : t \in DateTexts} \cup {NoEl}, e \in BOOLEAN, d \in BOOLEAN}

CteWeightDocs ==
    {[BaseCte EXCEPT !.qCarga = q, !.vTPrest = v] :
        q \in SeqsUpTo(WeightTexts, MaxCarga), v \in {El(V1234), El(V250), NoEl}}

CteKeyDocs ==
    {[BaseCte EXCEPT !.infNFe = k, !.qCarga = q] :
        k \in SeqsUpTo({El(KeyA), El(KeyB), NoEl}, MaxKeys), q \in {<<>>, <<W100, W50>>}}

CteDocs == CteStructDocs \cup CteWeightDocs \cup CteKeyDocs

BaseTransp ==
    [present |-> TRUE, modFrete |-> El(<<"1">>), vol |-> FALSE,
     transporta |-> [present |-> TRUE, xNome |-> El(<<"T", "r">>), CNPJ |-> El(<<"4", "2">>)]]

BaseNfe ==
    [wf |-> TRUE, parse |-> "root", rootTag |-> "nfeProc", NFe |-> "full",
     infNFe |-> "inNFe", Id |-> El(<<"N", "F", "e">> \o KeyA),
     ide |-> [present |-> TRUE, dhEmi |-> El(IsoDate), dEmi |-> NoEl, nNF |-> El(<<"9">>)],
     emit |-> [present |-> TRUE, xNome |-> El(<<"E", "m">>)],
     dest |-> [present |-> TRUE, xNome |-> El(<<"D", "e">>)],
     tot |-> [present |-> TRUE, vNF |-> El(V1234), vICMS |-> El(V250)],
     transp |-> BaseTransp]

\* (rootTag, NFe, infNFe): an infNFe inside the NFe element needs an NFe element
\* that has it as a child
RootShapes ==
    {<<"nfeProc", "full", "inNFe">>, <<"nfeProc", "full", "absent">>,
     <<"nfeProc", "full", "outside">>, <<"nfeProc", "empty", "absent">>,
     <<"nfeProc", "empty", "outside">>, <<"nfeProc", "absent", "absent">>,
     <<"NFe", "full", "inNFe">>, <<"NFe", "full", "absent">>}

NfeStructDocs ==
    {[BaseNfe EXCEPT !.wf = po[1], !.parse = po[2],
                     !.rootTag = rs[1], !.NFe = rs[2], !.infNFe = rs[3],
                     !.ide.present = i, !.emit.present = e,
                     !.dest.present = d, !.tot.present = t] :
        po \in ParseOutcomes, rs \in RootShapes,
        i \in BOOLEAN, e \in BOOLEAN, d \in BOOLEAN, t \in BOOLEAN}

NfeDateDocs ==
    {[BaseNfe EXCEPT !.ide.dhEmi = a, !.ide.dEmi = b, !.tot.vNF = v] :
        a \in {El(t) : t \in DateTexts} \cup {NoEl},
        b \in {El(t) : t \in DateTexts} \cup {NoEl},
        v \in {El(V1234), NoEl, El(<<"x">>)}}

IdChars == {"N", "F", "e", "1"}
Ids == SeqsUpTo(IdChars, MaxIdLen)

NfeIdDocs == {[BaseNfe EXCEPT !.Id = a] : a \in {El(i) : i \in Ids} \cup {NoEl}}

CodeChars == {"1", "7", " "}
Codes == SeqsUpTo(CodeChars, MaxCodeLen)
         \cup {<<"0">>, <<"2">>, <<"3">>, <<"4">>, <<"9">>}

Transportas ==
    {[present |-> p, xNome |-> x, CNPJ |-> c] :
        p \in BOOLEAN, x \in {El(<<"T", "r">>), NoEl}, c \in {El(<<"4", "2">>), NoEl}}

NfeTranspDocs ==
    {[BaseNfe EXCEPT !.transp = [present |-> p, modFrete |-> m, vol |-> v, transporta |-> t]] :
        p \in BOOLEAN, m \in {El(c) : c \in Codes} \cup {NoEl}, v \in BOOLEAN,
        t \in Transportas}

NfeDocs == NfeStructDocs \cup NfeDateDocs \cup NfeIdDocs \cup NfeTranspDocs

\* ------------------------------------------------------------ state
VARIABLES
    call,           \* the extractor / formatter call under test: function and argument
    result,         \* its outcome
    pc,             \* position of the script run: which tab block runs next
    session_state,  \* st.session_state: a dictionary holding "df_cte" / "df_nfe"
    rows_cte,       \* rows_cte of the current run
    rows_nfe,       \* rows_nfe of the current run
    ui              \* what the UNIFICAR tab rendered in the current run

vars == <<call, result, pc, session_state, rows_cte, rows_nfe, ui>>

\* ------------------------------------------------------------ tables
\* session_state.get(key) of a missing key
None == [isNone |-> TRUE, rows |-> <<>>]

\* pd.DataFrame(rows)
DataFrame(rows) == [isNone |-> FALSE, rows |-> rows]

Get(state, key) == IF key \in DOMAIN state THEN state[key] ELSE None

\* st.session_state[key] = value
Put(state, key, value) ==
    [k \in DOMAIN state \cup {key} |-> IF k = key THEN value ELSE state[k]]

\* variant: rows paired on the other column the two tables share
KeyEqOnData(l, r) == l.Data = r.Data

\* on="Chave NF": the rows that are paired
KeyEq(l, r) == l.ChaveNF = r.ChaveNF

\* one row of the merged table; "Data" and "Arquivo" exist on both sides and
\* get the suffixes ("_CTE", "_NFE")
MergedRow(l, r) ==
    [Data_CTE |-> l.Data, MesAno |-> l.MesAno, NumeroCTe |-> l.NumeroCTe,
     Emitente |-> l.Emitente, UFOrig |-> l.UFOrig, UFDest |-> l.UFDest,
     CidadeDest |-> l.CidadeDest, Frete |-> l.Frete, Peso |-> l.Peso, RTon |-> l.RTon,
     ChaveNF |-> l.ChaveNF, Arquivo_CTE |-> l.Arquivo,
     Data_NFE |-> r.Data, NumeroNF |-> r.NumeroNF, EmitenteNF |-> r.EmitenteNF,
     Destinatario |-> r.Destinatario, ValorNF |-> r.ValorNF, ICMS |-> r.ICMS,
     Transportadora |-> r.Transportadora, CNPJTransp |-> r.CNPJTransp,
     TipoFrete |-> r.TipoFrete, Arquivo_NFE |-> r.Arquivo]

\* the rows one left row contributes: its matches, in the order of the right table
RECURSIVE Matches(_, _)
Matches(l, right) ==
    IF right = <<>> THEN <<>>
    ELSE (IF KeyEq(l, Head(right)) THEN <<MergedRow(l, Head(right))>> ELSE <<>>)
         \o Matches(l, Tail(right))

\* pd.merge(df_cte, df_nfe, on="Chave NF", how="inner", suffixes=("_CTE", "_NFE"))
RECURSIVE merge(_, _)
merge(left, right) ==
    IF left = <<>> THEN <<>>
    ELSE Matches(Head(left), right) \o merge(Tail(left), right)

\* ------------------------------------------------------------ uploads
\* the (name, bytes) pairs load_files can return in the session runs
CteFiles ==
    {[name |-> "c1.xml", doc |-> BaseCte],
     [name |-> "c2.xml", doc |-> [BaseCte EXCEPT !.infNFe = <<El(KeyA), El(KeyB)>>]],
     [name |-> "c3.xml", doc |-> [BaseCte EXCEPT !.infNFe = <<>>]],
     [name |-> "c4.xml", doc |-> [BaseCte EXCEPT !.infCte = FALSE]],
     [name |-> "c5.xml", doc |-> [BaseCte EXCEPT !.ide.dhEmi = NoEl]]}

NfeFiles ==
    {[name |-> "n1.xml", doc |-> BaseNfe],
     [name |-> "n2.xml", doc |-> [BaseNfe EXCEPT !.Id = El(<<"N", "F", "e">> \o KeyB)]],
     [name |-> "n3.xml", doc |-> [BaseNfe EXCEPT !.Id = NoEl]],
     [name |-> "n4.xml", doc |-> [BaseNfe EXCEPT !.infNFe = "absent"]],
     [name |-> "n5.xml", doc |-> [BaseNfe EXCEPT !.ide.present = FALSE]]}

\* ------------------------------------------------------------ script run
\* parse_cte(raw, n) / parse_nfe(raw, n) of each file that can be uploaded (the
\* extractors are pure, so a file's outcome is the same in every run)
CteParsed == [f \in CteFiles |-> parse_cte(f.doc, f.name)]

NfeParsed == [f \in NfeFiles |-> parse_nfe(f.doc, f.name)]

\* the loop of a tab over its files: the rows gathered, and whether a call raised
RECURSIVE CteLoop(_)
CteLoop(files) ==
    IF files = <<>> THEN Return(<<>>)
    ELSE LET r == CteParsed[Head(files)]
             rest == CteLoop(Tail(files))
         IN  IF r.exc # "" THEN r
             ELSE IF rest.exc # "" THEN rest
             ELSE Return(r.ret \o rest.ret)

RECURSIVE NfeLoop(_)
NfeLoop(files) ==
    IF files = <<>> THEN Return(<<>>)
    ELSE LET r == NfeParsed[Head(files)]
             rest == NfeLoop(Tail(files))
         IN  IF r.exc # "" THEN r
             ELSE IF rest.exc # "" THEN rest
             ELSE Return(r.ret \o rest.ret)

\* variant: the table stored whether or not the run gathered rows
StoreCteAlways(state, rows) == Put(state, "df_cte", DataFrame(rows))

\* if rows_cte: ... st.session_state["df_cte"] = df_cte
StoreCte(state, rows) ==
    IF rows # <<>> THEN Put(state, "df_cte", DataFrame(rows)) ELSE state

\* if rows_nfe: ... st.session_state["df_nfe"] = df_nfe
StoreNfe(state, rows) ==
    IF rows # <<>> THEN Put(state, "df_nfe", DataFrame(rows)) ELSE state

\* variant: the message only when both tables are missing
MissingBothTables(df_cte, df_nfe) == df_cte.isNone /\ df_nfe.isNone

\* if df_cte is None or df_nfe is None
MissingTables(df_cte, df_nfe) == df_cte.isNone \/ df_nfe.isNone

NoUi == [kind |-> "", merged |-> <<>>, count |-> 0, download |-> FALSE]

\* with tab_cte: an uncaught exception ends the script run
tab_cte(files) ==
    /\ pc = "tab_cte"
    /\ LET r == CteLoop(files)
       IN  IF r.exc # ""
           THEN /\ pc' = "aborted"
                /\ UNCHANGED <<session_state, rows_cte>>
           ELSE /\ rows_cte' = r.ret
                /\ session_state' = StoreCte(session_state, r.ret)
                /\ pc' = "tab_nfe"
    /\ UNCHANGED <<call, result, rows_nfe, ui>>

\* with tab_nfe
tab_nfe(files) ==
    /\ pc = "tab_nfe"
    /\ LET r == NfeLoop(files)
       IN  IF r.exc # ""
           THEN /\ pc' = "aborted"
                /\ UNCHANGED <<session_state, rows_nfe>>
           ELSE /\ rows_nfe' = r.ret
                /\ session_state' = StoreNfe(session_state, r.ret)
                /\ pc' = "tab_merge"
    /\ UNCHANGED <<call, result, rows_cte, ui>>

\* with tab_merge
tab_merge ==
    /\ pc = "tab_merge"
    /\ LET df_cte == Get(session_state, "df_cte")
           df_nfe == Get(session_state, "df_nfe")
           merged == merge(df_cte.rows, df_nfe.rows)
       IN  ui' = IF MissingTables(df_cte, df_nfe)
                 THEN [kind |-> "info", merged |-> <<>>, count |-> 0, download |-> FALSE]
                 ELSE [kind |-> "merged", merged |-> merged, count |-> Len(merged),
                       download |-> TRUE]
    /\ pc' = "end"
    /\ UNCHANGED <<call, result, session_state, rows_cte, rows_nfe>>

\* a user interaction reruns the script from the top; the session state is kept
Rerun ==
    /\ pc \in {"end", "aborted"}
    /\ pc' = "tab_cte"
    /\ rows_cte' = <<>>
    /\ rows_nfe' = <<>>
    /\ ui' = NoUi
    /\ UNCHANGED <<call, result, session_state>>

NoCall == [fn |-> "", arg |-> <<>>]

Init ==
    /\ call = NoCall
    /\ result = Return(<<>>)
    /\ pc = "tab_cte"
    /\ session_state = <<>>
    /\ rows_cte = <<>>
    /\ rows_nfe = <<>>
    /\ ui = NoUi

Next ==
    \/ \E files \in SeqsUpTo(CteFiles, MaxFiles) : tab_cte(files)
    \/ \E files \in SeqsUpTo(NfeFiles, MaxFiles) : tab_nfe(files)
    \/ tab_merge
    \/ Rerun

Spec == Init /\ [][Next]_vars

\* ------------------------------------------------------------ extractor calls
\* one call of an extractor or formatter on one input of the bounded input sets
CallParseCte(doc) ==
    /\ call = NoCall
    /\ call' = [fn |-> "parse_cte", arg |-> doc]
    /\ result' = parse_cte(doc, "a.xml")
    /\ UNCHANGED <<pc, session_state, rows_cte, rows_nfe, ui>>

CallParseNfe(doc) ==
    /\ call = NoCall
    /\ call' = [fn |-> "parse_nfe", arg |-> doc]
    /\ result' = parse_nfe(doc, "a.xml")
    /\ UNCHANGED <<pc, session_state, rows_cte, rows_nfe, ui>>

CallFreteTipo(code) ==
    /\ call = NoCall
    /\ call' = [fn |-> "frete_tipo", arg |-> code]
    /\ result' = Return(frete_tipo(code))
    /\ UNCHANGED <<pc, session_state, rows_cte, rows_nfe, ui>>

NextCalls ==
    \/ \E doc \in CteDocs : CallParseCte(doc)
    \/ \E doc \in NfeDocs : CallParseNfe(doc)
    \/ \E code \in Codes : CallFreteTipo(code)

SpecCalls == Init /\ [][NextCalls]_vars

\* ------------------------------------------------------------ claims
Doc == call.arg

CalledCte == call.fn = "parse_cte"
CalledNfe == call.fn = "parse_nfe"
CalledFrete == call.fn = "frete_tipo"

\* the call returned at least one record
Returned == result.exc = "" /\ result.ret # <<>>

\* C1: for every byte string that is not well-formed XML, parse_cte returns the
\* empty list and parse_nfe returns None, and neither raises.
C1_MalformedYieldsEmpty ==
    ((CalledCte \/ CalledNfe) /\ ~Doc.wf) => result = Return(<<>>)

\* a CT-e tree without infCte, ide, the emission date, emit or dest
CteLacksRequired(doc) ==
    \/ ~doc.infCte
    \/ ~doc.ide.present
    \/ findtext(doc.ide.dhEmi, <<>>) = <<>>
    \/ ~doc.emit.present
    \/ ~doc.dest.present

\* an NF-e tree without infNFe, ide, the emission date, emit, dest or ICMSTot
NfeLacksRequired(doc) ==
    \/ doc.infNFe = "absent"
    \/ ~doc.ide.present
    \/ (findtext(doc.ide.dhEmi, <<>>) = <<>> /\ findtext(doc.ide.dEmi, <<>>) = <<>>)
    \/ ~doc.emit.present
    \/ ~doc.dest.present
    \/ ~doc.tot.present

\* C2: a document that parses as XML but lacks a required sub-element is skipped
\* silently: parse_cte returns the empty list, parse_nfe returns None, nothing
\* is raised and no record is emitted.
C2_IncompleteSkipped ==
    /\ (CalledCte /\ Doc.wf /\ CteLacksRequired(Doc)) => result = Return(<<>>)
    /\ (CalledNfe /\ Doc.wf /\ NfeLacksRequired(Doc)) => result = Return(<<>>)

\* a manifest whose required elements are all there and whose numbers parse
ValidCte(doc) ==
    /\ doc.wf /\ doc.parse = "root" /\ doc.infCte
    /\ doc.ide.present /\ IsoOk(findtext(doc.ide.dhEmi, <<>>))
    /\ ~xml_float_raises(findtext(doc.vTPrest, <<"0">>))
    /\ \A i \in 1..Len(doc.qCarga) : ~xml_float_raises(doc.qCarga[i])

\* C3: a valid manifest with k infNFe elements gives k records (1 when k = 0);
\* their 'Chave NF' values are the referenced keys in document order (the empty
\* string when k = 0) and the records agree in every other field.
C3_OneRecordPerKey ==
    (CalledCte /\ ValidCte(Doc)) =>
        LET k == Len(Doc.infNFe)
            recs == result.ret
        IN  /\ result.exc = ""
            /\ Len(recs) = (IF k >= 1 THEN k ELSE 1)
            /\ k = 0 => recs[1].ChaveNF = <<>>
            /\ \A i \in 1..k : recs[i].ChaveNF = findtext(Doc.infNFe[i], <<>>)
            /\ \A i, j \in 1..Len(recs) :
                   [recs[i] EXCEPT !.ChaveNF = <<>>] = [recs[j] EXCEPT !.ChaveNF = <<>>]

C3_Witness ==
    /\ CalledCte /\ ValidCte(Doc)
    /\ Doc.infNFe = <<El(KeyA), El(KeyB)>>
    /\ Len(result.ret) = 2
    /\ result.ret[1].ChaveNF = KeyA /\ result.ret[2].ChaveNF = KeyB

\* the pairs (manifest row, invoice row) of the stored tables with equal keys
StoredCte == Get(session_state, "df_cte").rows
StoredNfe == Get(session_state, "df_nfe").rows

EqualKeyPairs ==
    {p \in (1..Len(StoredCte)) \X (1..Len(StoredNfe)) :
        StoredCte[p[1]].ChaveNF = StoredNfe[p[2]].ChaveNF}

\* C4: the joined table holds one row per pair of a stored manifest row and a
\* stored invoice row with equal 'Chave NF' strings and no other row; the
\* reported count is the number of such pairs.
C4_InnerJoinOnKey ==
    ui.kind = "merged" =>
        /\ ui.count = Cardinality(EqualKeyPairs)
        /\ Len(ui.merged) = Cardinality(EqualKeyPairs)
        /\ \A p \in EqualKeyPairs :
               \E m \in 1..Len(ui.merged) :
                   ui.merged[m] = MergedRow(StoredCte[p[1]], StoredNfe[p[2]])
        /\ \A m \in 1..Len(ui.merged) :
               Cardinality({n \in 1..Len(ui.merged) : ui.merged[n] = ui.merged[m]})
               = Cardinality({p \in EqualKeyPairs :
                     MergedRow(StoredCte[p[1]], StoredNfe[p[2]]) = ui.merged[m]})

C4_Witness ==
    /\ ui.kind = "merged"
    /\ ui.count >= 1
    /\ \E i \in 1..Len(StoredCte) : \A j \in 1..Len(StoredNfe) :
           StoredCte[i].ChaveNF # StoredNfe[j].ChaveNF
    /\ \E j \in 1..Len(StoredNfe) : \A i \in 1..Len(StoredCte) :
           StoredCte[i].ChaveNF # StoredNfe[j].ChaveNF

BothStored == "df_cte" \in DOMAIN session_state /\ "df_nfe" \in DOMAIN session_state

\* C5: when the session lacks the manifest table or the invoice table, the join
\* step shows only the message, with no joined table and no export; a joined
\* table and its export appear only in runs where both tables are stored.
C5_JoinNeedsBothTables ==
    /\ pc = "end" => ui.kind \in {"info", "merged"}
    /\ (pc = "end" /\ ~BothStored) =>
           ui = [kind |-> "info", merged |-> <<>>, count |-> 0, download |-> FALSE]
    /\ (ui.kind = "merged" \/ ui.download) => BothStored
    /\ (pc = "end" /\ BothStored) => (ui.kind = "merged" /\ ui.download)

C5_Witness ==
    /\ pc = "end" /\ ui.kind = "info"
    /\ "df_cte" \in DOMAIN session_state /\ "df_nfe" \notin DOMAIN session_state

NFePrefix == <<"N", "F", "e">>

\* C6: 'Chave NF' is the Id with one literal leading "NFe" removed when the Id
\* starts with "NFe", and the Id unchanged otherwise.
C6_LiteralPrefixStripped ==
    (CalledNfe /\ Returned) =>
        LET id == findtext(Doc.Id, <<>>)
        IN  result.ret[1].ChaveNF =
                (IF StartsWith(id, NFePrefix) THEN SubSeq(id, 4, Len(id)) ELSE id)

HasTransporta(doc) == doc.transp.present /\ doc.transp.transporta.present

\* C7 as stated: outside the case "transp and transporta both present" the
\* fields 'Transportadora', 'CNPJ Transp' and 'Tipo Frete' are all empty.
C7_AllThreeEmptyWithoutTransporta ==
    (CalledNfe /\ Returned /\ ~HasTransporta(Doc)) =>
        /\ result.ret[1].Transportadora = <<>>
        /\ result.ret[1].CNPJTransp = <<>>
        /\ result.ret[1].TipoFrete = <<>>

\* C7 as amended: 'Transportadora' and 'CNPJ Transp' are taken from transporta
\* when transp and transporta are both present and are empty otherwise; 'Tipo
\* Frete' does not depend on transporta: it is frete_tipo of the modFrete text
\* (of the empty code when modFrete is absent) whenever transp is present with
\* at least one child element, and empty only otherwise.
C7_CarrierFields ==
    (CalledNfe /\ Returned) =>
        LET t == Doc.transp
            rec == result.ret[1]
        IN  /\ rec.Transportadora =
                   (IF HasTransporta(Doc) THEN findtext(t.transporta.xNome, <<>>) ELSE <<>>)
            /\ rec.CNPJTransp =
                   (IF HasTransporta(Doc) THEN findtext(t.transporta.CNPJ, <<>>) ELSE <<>>)
            /\ rec.TipoFrete =
                   (IF t.present /\ (t.modFrete.present \/ t.vol \/ t.transporta.present)
                    THEN frete_tipo(findtext(t.modFrete, <<>>)) ELSE <<>>)

C7_Witness ==
    /\ CalledNfe /\ Returned
    /\ Doc.transp.present /\ ~Doc.transp.transporta.present
    /\ Doc.transp.modFrete = El(<<"1">>)
    /\ result.ret[1].TipoFrete = LabelFOB
    /\ result.ret[1].Transportadora = <<>>

\* the sum of the qCarga values, each distinct value counted at its first
\* occurrence only
RECURSIVE DistinctSum(_, _)
DistinctSum(q, n) ==
    IF n = 0 THEN 0
    ELSE DistinctSum(q, n - 1)
         + (IF \E j \in 1..(n - 1) : xml_float(q[j]) = xml_float(q[n])
            THEN 0 ELSE xml_float(q[n]))

Txt100 == <<"1", "0", "0", ",", "0", "0">>
Txt150 == <<"1", "5", "0", ",", "0", "0">>
Txt12345 == <<"1", "2", ".", "3", "4", "5", ",", "0", "0">>

\* C8: the cargo weight is the sum of the distinct qCarga values (100.0 twice
\* gives 100.0; 100.0 and 50.0 give 150.0), and 'R$/ton' is empty exactly when
\* the weight is zero, otherwise freight / (weight / 1000).
C8_DistinctWeightSum ==
    (CalledCte /\ Returned) =>
        LET w == DistinctSum(Doc.qCarga, Len(Doc.qCarga))
            f == xml_float(findtext(Doc.vTPrest, <<"0">>))
        IN  \A i \in 1..Len(result.ret) :
                /\ result.ret[i].Peso = br_weight(w)
                /\ (result.ret[i].RTon = <<>>) <=> (w = 0)
                /\ w # 0 => result.ret[i].RTon = br_money(PerTon(f, w))
                /\ Doc.qCarga = <<W100, W100>> => result.ret[i].Peso = Txt100
                /\ Doc.qCarga = <<W100, W50>> => result.ret[i].Peso = Txt150
                /\ (Doc.qCarga = <<W100, W100>> /\ Doc.vTPrest = El(V1234))
                       => result.ret[i].RTon = Txt12345

C8_Witness ==
    /\ CalledCte /\ Returned
    /\ Doc.qCarga = <<W100, W100>>
    /\ Doc.vTPrest = El(V1234)
    /\ result.ret[1].Peso = Txt100
    /\ result.ret[1].RTon = Txt12345

Spaces(n) == [i \in 1..n |-> " "]

\* code is key with blanks before and after it
Padded(code, key) ==
    \E a, b \in 0..Len(code) : code = Spaces(a) \o key \o Spaces(b)

TableCodes == {<<"0">>, <<"1">>, <<"2">>, <<"3">>, <<"4">>, <<"9">>}

TableLabel(key) ==
    CASE key = <<"0">> -> LabelCIF
      [] key = <<"1">> -> LabelFOB
      [] key = <<"2">> -> LabelTerceiros
      [] key \in {<<"3">>, <<"4">>, <<"9">>} -> LabelSemFrete

\* C9 as stated: the table label for the codes 0, 1, 2, 3, 4, 9; every other
\* non-empty code verbatim; "--" for the empty code; nothing raised.
C9_LabelOrVerbatim ==
    CalledFrete =>
        /\ result.exc = ""
        /\ result.ret = (IF Doc \in TableCodes THEN TableLabel(Doc)
                         ELSE IF Doc # <<>> THEN Doc ELSE <<"-", "-">>)

\* C9 as amended: the table label for every code that is one of 0, 1, 2, 3, 4, 9
\* possibly surrounded by blanks; every other non-empty code (blank-only codes
\* included) verbatim; "--" for the empty code; nothing raised.
C9_LabelAfterStrip ==
    CalledFrete =>
        /\ result.exc = ""
        /\ \A key \in TableCodes : Padded(Doc, key) => result.ret = TableLabel(key)
        /\ (Doc # <<>> /\ \A key \in TableCodes : ~Padded(Doc, key)) => result.ret = Doc
        /\ Doc = <<>> => result.ret = <<"-", "-">>

C9_Witness ==
    /\ CalledFrete
    /\ Doc = <<" ", "1">>
    /\ result.ret = LabelFOB

\* C10: a run whose CT-e (NF-e) uploads yield no record leaves the stored CT-e
\* (NF-e) table unchanged; the stored table changes only in a run that yields at
\* least one record, to that run's records, and is never cleared; the join step
\* joins the stored tables.
C10_TableKeptUntilReplaced ==
    [][/\ Get(session_state', "df_cte") # Get(session_state, "df_cte") =>
              /\ pc = "tab_cte" /\ rows_cte' # <<>>
              /\ Get(session_state', "df_cte") = DataFrame(rows_cte')
       /\ Get(session_state', "df_nfe") # Get(session_state, "df_nfe") =>
              /\ pc = "tab_nfe" /\ rows_nfe' # <<>>
              /\ Get(session_state', "df_nfe") = DataFrame(rows_nfe')
       /\ (pc = "tab_cte" /\ pc' = "tab_nfe" /\ rows_cte' # <<>>) =>
              Get(session_state', "df_cte") = DataFrame(rows_cte')
       /\ (pc = "tab_nfe" /\ pc' = "tab_merge" /\ rows_nfe' # <<>>) =>
              Get(session_state', "df_nfe") = DataFrame(rows_nfe')
       /\ DOMAIN session_state \subseteq DOMAIN session_state'
       /\ (pc = "tab_merge" /\ ui'.kind = "merged") =>
              ui'.merged = merge(Get(session_state, "df_cte").rows,
                                 Get(session_state, "df_nfe").rows)]_vars

\* a run that yielded no CT-e and no NF-e record reached the join step with the
\* tables of earlier runs still stored
C10_Witness ==
    /\ pc = "end"
    /\ rows_cte = <<>> /\ rows_nfe = <<>>
    /\ BothStored
    /\ ui.kind = "merged" /\ ui.count >= 1

====
